---- MODULE Spec2Model ----
(***************************************************************************)
(* Token lifecycle of the MyCase lead relay (src/mycase.js): the token     *)
(* file, the OAuth code exchange, the refresh procedure, the request-time  *)
(* check getValidAccessToken, the background refresher started by          *)
(* setInterval, and the /callback, /lead and /token-status handlers.       *)
(*                                                                         *)
(* JSON objects are records whose DOMAIN is the set of keys present, so a  *)
(* missing key and a full replace are what they are in the code.  Times    *)
(* are milliseconds, as Date.now() gives them.  Every await is a point     *)
(* where other handlers run: a handler is one action up to its first       *)
(* await and one action per continuation.                                  *)
(***************************************************************************)
EXTENDS Integers, FiniteSets, Sequences, TLC

VARIABLES
    clock,      \* Date.now()
    file,       \* content of TOKEN_FILE
    issued,     \* token responses the authorization server has issued so far
    lead,       \* the POST /lead handler in progress
    cb,         \* the GET /callback handler in progress
    bg,         \* the backgroundRefresher invocation in progress
    out,        \* what the process emitted last: an HTTP answer, or the
                \* end of a backgroundRefresher run
    lastWrite,  \* the last write of the token file: the response body it
                \* came from, and when
    nextFire,   \* the time the interval timer is due next
    running,    \* the process is alive (no error escaped to the event loop)
    current     \* the refresh token the authorization server holds as the
                \* latest it issued

vars == <<clock, file, issued, lead, cb, bg, out, lastWrite, nextFire, running,
          current>>

----------------------------------------------------------------------------
(* Bounds of the model *)

MaxIssue == 2        \* successful token responses in one run
MaxPeriods == 2      \* timer periods the clock advances over
BootTime == 50000000 \* Date.now() when the process starts
MaxSaves == 3        \* calls of saveTokens in a row on one input

(* Program constants *)

SAFETY_MARGIN_MS == 2 * 60 * 1000
KEEPALIVE_MS == 12 * 60 * 60 * 1000
BG_PERIOD_MS == 10 * 60 * 1000

ClockValues == {BootTime + p * BG_PERIOD_MS : p \in 0..MaxPeriods}

----------------------------------------------------------------------------
(* JavaScript values *)

null == [null |-> TRUE]

Has(o, k) == k \in DOMAIN o

\* o.k for a numeric property: undefined reads as the falsy 0
Get(o, k) == IF Has(o, k) THEN o[k] ELSE 0

\* !!o.k for a numeric property
Truthy(o, k) == Has(o, k) /\ o[k] # 0

\* !!o.k for a string property
TruthyStr(o, k) == Has(o, k) /\ o[k] # ""

\* a number as JSON.stringify writes it; NaN is written as null
Num(n) == [num |-> n]

\* obj with obj.k = v assigned
Assign(o, k, v) == [f \in DOMAIN o \cup {k} |-> IF f = k THEN v ELSE o[f]]

----------------------------------------------------------------------------
(* The token file *)

NoFile == [kind |-> "none"]
Garbage == [kind |-> "corrupt"]
Json(o) == [kind |-> "json", rec |-> o]

\* a loadTokens that answers an empty object when there is nothing to read
loadTokens_EmptyObject(f) ==
    IF f.kind = "json" THEN f.rec ELSE [unreadable |-> TRUE]

loadTokens(f) ==
    IF f.kind = "json" THEN f.rec ELSE null

\* a saveTokens that assigns the new fields onto the record already stored
saveTokens_Merge(tokens, now) ==
    LET new == IF Truthy(tokens, "expires_in")
               THEN Assign(tokens, "expires_at", now + tokens.expires_in * 1000)
               ELSE tokens
        old == IF file.kind = "json" THEN file.rec ELSE new
    IN Json([k \in DOMAIN old \cup DOMAIN new |->
                IF k \in DOMAIN new THEN new[k] ELSE old[k]])

\* a saveTokens that counts expires_in from the expires_at the record has
saveTokens_ExtendsExpiry(tokens, now) ==
    Json(IF Truthy(tokens, "expires_in")
         THEN Assign(tokens, "expires_at",
                     (IF Truthy(tokens, "expires_at")
                      THEN tokens.expires_at ELSE now)
                     + tokens.expires_in * 1000)
         ELSE tokens)

\* saveTokens(tokens) at time now: the record written to the file
saveTokens(tokens, now) ==
    Json(IF Truthy(tokens, "expires_in")
         THEN Assign(tokens, "expires_at", now + tokens.expires_in * 1000)
         ELSE tokens)

\* lines 52 and 70 without lines 53 and 71
StampExpiry_Skipped(data, now) == data

\* lines 52-53 and 70-71: tokens = res.data; tokens.expires_at = ...
StampExpiry(data, now) ==
    Assign(data, "expires_at", now + Get(data, "expires_in") * 1000)

----------------------------------------------------------------------------
(* The authorization server and the callers of the relay: the inputs *)

\* The bodies a successful token response numbered n may carry.  Token
\* values are the response's number, so every issued token is distinct.
\* expires_in is 2 minutes, 2 minutes and a second, 12 hours, 13 hours, or
\* absent; the body without it carries an expires_at and a token_type of
\* the server's.
Responses(n) ==
    { [access_token |-> n, refresh_token |-> n, expires_in |-> 120],
      [access_token |-> n, refresh_token |-> n, expires_in |-> 121],
      [access_token |-> n, refresh_token |-> n, expires_in |-> 43200],
      [refresh_token |-> n, expires_in |-> 46800],
      [access_token |-> n, expires_in |-> 120],
      [access_token |-> n, refresh_token |-> n, expires_at |-> 1,
       token_type |-> "Bearer"] }

\* The authorization server keeps the refresh token it issued last.  The
\* relay numbers responses as it processes them, and a response is issued
\* somewhere between the sending of its request and its processing: when
\* the token the server holds came with a response the relay processed
\* after this request was sent (since is the number of responses processed
\* by then), the server may have issued that one last, and else it issued
\* this one last.  A response without a refresh_token issues none.  The
\* response to a code exchange is taken as issued when it is processed.
Issues(data, since) ==
    IF ~Has(data, "refresh_token")
    THEN {current}
    ELSE {data.refresh_token}
         \cup (IF current \in (since + 1)..issued THEN {current} ELSE {})

\* Token responses of a server whose tokens may live one second longer than
\* the timer period
ShortLived(n) ==
    [access_token |-> n, refresh_token |-> n, expires_in |-> 601]

\* The responses that carry a refresh_token and an expires_in longer than
\* the timer period
KeepAliveResponses(n) ==
    { r \in Responses(n) \cup {ShortLived(n)} :
        Has(r, "refresh_token") /\ Get(r, "expires_in") * 1000 > BG_PERIOD_MS }

\* Token files found at start: none, an unparseable one, hand-made
\* records that carry no expires_at, and the record an earlier run of the
\* process left behind, 12 minutes from its expiry.
InitFiles ==
    { NoFile, Garbage,
      Json([access_token |-> 9, refresh_token |-> 9]),
      Json([access_token |-> 9]),
      Json([access_token |-> 9, refresh_token |-> 9, expires_in |-> 43200,
            expires_at |-> BootTime + 12 * 60 * 1000]) }

LeadBodies ==
    { [firstName |-> "John", lastName |-> "Doe", email |-> "j@x.com"],
      [firstName |-> "John", email |-> "j@x.com"],
      [firstName |-> "", lastName |-> "Doe"] }

\* Lead bodies with both names, for the traffic of /lead alone: every
\* combination of typeOfClient (absent, empty, given) with customFieldId
\* (absent, 0, given), with and without a summary.
PayloadBodies ==
    LET names == [firstName |-> "John", lastName |-> "Doe"]
        WithClient(b) == {b, Assign(b, "typeOfClient", ""),
                          Assign(b, "typeOfClient", "Real Estate")}
        WithField(b) == {b, Assign(b, "customFieldId", 0),
                         Assign(b, "customFieldId", 12345)}
        WithSummary(b) == {b, Assign(b, "summary", "Details here.")}
    IN UNION { UNION { WithSummary(c) : c \in WithField(b) }
               : b \in WithClient(names) }

\* Arguments of saveTokens: expires_in absent, 0, 2 minutes or 12 hours;
\* expires_at absent, 1 or the boot time; with and without a refresh_token.
SaveInputs ==
    LET WithIn(b) == {b} \cup {Assign(b, "expires_in", e) : e \in {0, 120, 43200}}
        WithAt(b) == {b} \cup {Assign(b, "expires_at", t) : t \in {1, BootTime}}
        WithRefresh(b) == {b, Assign(b, "refresh_token", 1)}
    IN UNION { UNION { WithRefresh(c) : c \in WithAt(b) }
               : b \in WithIn([access_token |-> 1]) }

Queries == { [code |-> "c1", state |-> "s"], [state |-> "s"] }

----------------------------------------------------------------------------
(* The decisions of the code *)

\* line 88 with the keep-alive threshold of line 102 as its margin
NearExpiry_KeepaliveMargin(tokens, now) ==
    \/ ~Truthy(tokens, "expires_at")
    \/ now >= tokens.expires_at - KEEPALIVE_MS

\* line 88 with > for >=
NearExpiry_Strict(tokens, now) ==
    \/ ~Truthy(tokens, "expires_at")
    \/ now > tokens.expires_at - SAFETY_MARGIN_MS

\* line 88
NearExpiry(tokens, now) ==
    \/ ~Truthy(tokens, "expires_at")
    \/ now >= tokens.expires_at - SAFETY_MARGIN_MS

\* lines 83-92 without line 89
getValidAccessToken_NoRefreshTokenCheck(f, now) ==
    LET tokens == loadTokens(f) IN
    IF tokens = null
    THEN [do |-> "throw", err |-> "Unauthorized", tokens |-> tokens]
    ELSE IF NearExpiry(tokens, now)
    THEN [do |-> "refresh", err |-> "", tokens |-> tokens]
    ELSE [do |-> "return", err |-> "", tokens |-> tokens]

\* lines 83-92, up to the await: what getValidAccessToken does
getValidAccessToken(f, now) ==
    LET tokens == loadTokens(f) IN
    IF tokens = null
    THEN [do |-> "throw", err |-> "Unauthorized", tokens |-> tokens]
    ELSE IF NearExpiry(tokens, now)
    THEN IF ~Truthy(tokens, "refresh_token")
         THEN [do |-> "throw", err |-> "MissingRefreshToken", tokens |-> tokens]
         ELSE [do |-> "refresh", err |-> "", tokens |-> tokens]
    ELSE [do |-> "return", err |-> "", tokens |-> tokens]

\* lines 98-102 with <= for <
backgroundRefresher_AtMost(f, now) ==
    LET tokens == loadTokens(f) IN
    IF tokens = null \/ ~Truthy(tokens, "expires_at")
    THEN [do |-> "skip", tokens |-> tokens]
    ELSE IF tokens.expires_at - now <= KEEPALIVE_MS
    THEN [do |-> "refresh", tokens |-> tokens]
    ELSE [do |-> "healthy", tokens |-> tokens]

\* lines 98-102 with the refresh held back until the token has expired
backgroundRefresher_OnlyWhenExpired(f, now) ==
    LET tokens == loadTokens(f) IN
    IF tokens = null \/ ~Truthy(tokens, "expires_at")
    THEN [do |-> "skip", tokens |-> tokens]
    ELSE IF tokens.expires_at - now < 0
    THEN [do |-> "refresh", tokens |-> tokens]
    ELSE [do |-> "healthy", tokens |-> tokens]

\* lines 98-102, up to the await: what backgroundRefresher does
backgroundRefresher(f, now) ==
    LET tokens == loadTokens(f) IN
    IF tokens = null \/ ~Truthy(tokens, "expires_at")
    THEN [do |-> "skip", tokens |-> tokens]
    ELSE IF tokens.expires_at - now < KEEPALIVE_MS
    THEN [do |-> "refresh", tokens |-> tokens]
    ELSE [do |-> "healthy", tokens |-> tokens]

\* lines 61-66: the body posted by refreshAccessToken(refreshToken); an
\* undefined refreshToken (0) leaves the key out of the JSON sent
RefreshBody(refreshToken) ==
    IF refreshToken = 0
    THEN [grant_type |-> "refresh_token"]
    ELSE [grant_type |-> "refresh_token", refresh_token |-> refreshToken]

\* lines 42-48
ExchangeBody(code) ==
    [grant_type |-> "authorization_code", code |-> code]

\* lines 70-74 and 52-55: the file written from a successful response
StoreResponse(data, now) ==
    saveTokens(StampExpiry(data, now), now)

\* lines 109-111 with the error thrown on
BgErrorEscapes_Rethrown == TRUE

\* lines 109-111: the catch of backgroundRefresher logs and returns
BgErrorEscapes == FALSE

\* line 165 without its test of lastName
ValidLead_FirstNameOnly(body) == TruthyStr(body, "firstName")

\* line 165
ValidLead(body) ==
    TruthyStr(body, "firstName") /\ TruthyStr(body, "lastName")

\* lines 212-219: the JSON answered by /token-status; an undefined
\* expires_at leaves its key out and makes ms_until_expiry NaN
TokenStatusBody(f, now) ==
    LET tokens == loadTokens(f) IN
    IF tokens = null
    THEN [authorized |-> FALSE]
    ELSE LET base == [authorized |-> TRUE,
                      ms_until_expiry |->
                          IF Has(tokens, "expires_at")
                          THEN Num(tokens.expires_at - now) ELSE null,
                      has_refresh_token |-> Truthy(tokens, "refresh_token")]
         IN IF Has(tokens, "expires_at")
            THEN Assign(base, "expires_at", Num(tokens.expires_at))
            ELSE base

\* line 135
HasCode(query) == TruthyStr(query, "code")

\* body.k || dflt for a string property
OrElse(body, k, dflt) == IF TruthyStr(body, k) THEN body[k] ELSE dflt

\* lines 172-186
PayloadBase(body) ==
    [first_name |-> body.firstName,
     last_name |-> body.lastName,
     email |-> OrElse(body, "email", "null"),
     cell_phone_number |-> OrElse(body, "phone", "null"),
     address |-> [address1 |-> OrElse(body, "address1", ""),
                  address2 |-> OrElse(body, "address2", ""),
                  city |-> OrElse(body, "city", ""),
                  state |-> OrElse(body, "state", ""),
                  zip_code |-> OrElse(body, "zip", ""),
                  country |-> OrElse(body, "country", "US")],
     lead_details |-> OrElse(body, "summary", "")]

\* lines 172-195 with || for && in line 188
Payload_EitherField(body) ==
    IF TruthyStr(body, "typeOfClient") \/ Truthy(body, "customFieldId")
    THEN Assign(PayloadBase(body), "custom_field_values",
                << [custom_field |-> [id |-> Get(body, "customFieldId")],
                    value |-> OrElse(body, "typeOfClient", "")] >>)
    ELSE PayloadBase(body)

\* lines 172-195
Payload(body) ==
    IF TruthyStr(body, "typeOfClient") /\ Truthy(body, "customFieldId")
    THEN Assign(PayloadBase(body), "custom_field_values",
                << [custom_field |-> [id |-> body.customFieldId],
                    value |-> body.typeOfClient] >>)
    ELSE PayloadBase(body)

----------------------------------------------------------------------------
(* Handlers.  A handler's locals (tokens, res, the request it sent, the    *)
(* requests it has made) live while it runs; when it ends, what is left    *)
(* of it is what it emitted; n alternates, so that two emissions in a row  *)
(* are two values of out.  One run of each handler is in progress at a     *)
(* time: a /lead request runs concurrently with a /callback request and    *)
(* with the background refresher, each of which may write the token file   *)
(* while the others await.                                                 *)

\* epoch is the number of token-file writes so far when the handler loaded
\* the file
LeadIdle ==
    [pc |-> "idle", body |-> null, tokens |-> null, res |-> null,
     sent |-> null, posted |-> null, nAuth |-> 0, nPost |-> 0, ret |-> 0,
     epoch |-> 0]

CbIdle ==
    [pc |-> "idle", query |-> null, sent |-> null, nAuth |-> 0]

BgIdle ==
    [pc |-> "idle", tokens |-> null, sent |-> null, nAuth |-> 0, epoch |-> 0]

\* lines 166, 201 and 206: the answer of the /lead handler
LeadAnswer(r, status, err) ==
    [kind |-> "lead", n |-> 1 - out.n, body |-> r.body, status |-> status, err |-> err,
     nAuth |-> r.nAuth, nPost |-> r.nPost,
     sent |-> IF err = "RefreshFailed" THEN r.sent ELSE null,
     epoch |-> IF err = "RefreshFailed" THEN r.epoch ELSE 0]

\* lines 136, 140 and 145: the answer of the /callback handler
CbAnswer(r, status, err) ==
    [kind |-> "callback", n |-> 1 - out.n, query |-> r.query, status |-> status, err |-> err,
     nAuth |-> r.nAuth]

\* lines 96-112: how a backgroundRefresher run ended
BgEnd(r, outcome) ==
    [kind |-> "bg", n |-> 1 - out.n, outcome |-> outcome, nAuth |-> r.nAuth,
     sent |-> IF outcome = "failed" THEN r.sent ELSE null,
     epoch |-> IF outcome = "failed" THEN r.epoch ELSE 0]

\* lines 170-199: the token is in hand; the lead is posted downstream
Submit(r, accessToken) ==
    [r EXCEPT !.pc = "post", !.ret = accessToken,
              !.posted = Payload(r.body), !.nPost = @ + 1]

\* line 90: the refresh request goes out and the handler awaits it
AwaitRefresh(r, tokens) ==
    [r EXCEPT !.pc = "refresh", !.tokens = tokens, !.epoch = issued,
              !.sent = RefreshBody(Get(tokens, "refresh_token")),
              !.nAuth = @ + 1]

Init ==
    /\ clock = BootTime
    /\ file \in InitFiles
    /\ issued = 0
    /\ lead = LeadIdle
    /\ cb = CbIdle
    /\ bg = BgIdle
    /\ out = [kind |-> "none", n |-> 0]
    /\ lastWrite = null
    /\ nextFire = BootTime + BG_PERIOD_MS
    /\ running = TRUE
    /\ current = 9

\* POST /lead, lines 163-170 and on to the first await
LeadRequest(body) ==
    /\ running
    /\ lead.pc = "idle"
    /\ LET r == [LeadIdle EXCEPT !.body = body]
           g == getValidAccessToken(file, clock)
       IN IF ~ValidLead(body)
          THEN /\ out' = LeadAnswer(r, 400, "")
               /\ UNCHANGED lead
          ELSE IF g.do = "throw"
          THEN /\ out' = LeadAnswer(r, 500, g.err)
               /\ UNCHANGED lead
          ELSE IF g.do = "refresh"
          THEN /\ lead' = AwaitRefresh(r, g.tokens)
               /\ UNCHANGED out
          ELSE /\ lead' = Submit([r EXCEPT !.tokens = g.tokens],
                               Get(g.tokens, "access_token"))
               /\ UNCHANGED out
    /\ UNCHANGED <<current, clock, file, issued, cb, bg, lastWrite, nextFire, running>>

\* lines 70-74 with the response not written when the file was replaced
\* while the request was awaited
LeadRefreshOk_KeepsNewerRecord(data) ==
    /\ running
    /\ lead.pc = "refresh"
    /\ issued < MaxIssue
    /\ issued' = issued + 1
    /\ current' \in Issues(data, lead.epoch)
    /\ file' = IF issued = lead.epoch THEN StoreResponse(data, clock) ELSE file
    /\ lastWrite' = [data |-> data, at |-> clock]
    /\ lead' = Submit([lead EXCEPT !.res = data,
                                   !.tokens = StoreResponse(data, clock).rec],
                       Get(data, "access_token"))
    /\ UNCHANGED <<clock, cb, bg, out, nextFire, running>>

\* lines 67-74, then 90-92 and 172-199: the refresh answered 2xx
LeadRefreshOk(data) ==
    /\ running
    /\ lead.pc = "refresh"
    /\ issued < MaxIssue
    /\ issued' = issued + 1
    /\ current' \in Issues(data, lead.epoch)
    /\ file' = StoreResponse(data, clock)
    /\ lastWrite' = [data |-> data, at |-> clock]
    /\ lead' = Submit([lead EXCEPT !.res = data, !.tokens = file'.rec],
                       Get(file'.rec, "access_token"))
    /\ UNCHANGED <<clock, cb, bg, out, nextFire, running>>

\* lines 75-78 with the token file emptied on failure
LeadRefreshFail_ClearsStore ==
    /\ running
    /\ lead.pc = "refresh"
    /\ out' = LeadAnswer(lead, 500, "RefreshFailed")
    /\ lead' = LeadIdle
    /\ file' = NoFile
    /\ UNCHANGED <<current, clock, issued, cb, bg, lastWrite, nextFire, running>>

\* lines 202-206 with the lead posted under the old token when the refresh
\* failed
LeadRefreshFail_PostsWithOldToken ==
    /\ running
    /\ lead.pc = "refresh"
    /\ lead' = Submit(lead, Get(lead.tokens, "access_token"))
    /\ UNCHANGED <<current, clock, file, issued, cb, bg, out, lastWrite, nextFire, running>>

\* lines 75-78, then 202-206: the refresh failed
LeadRefreshFail ==
    /\ running
    /\ lead.pc = "refresh"
    /\ out' = LeadAnswer(lead, 500, "RefreshFailed")
    /\ lead' = LeadIdle
    /\ UNCHANGED <<current, clock, file, issued, cb, bg, lastWrite, nextFire, running>>

\* lines 197-201
LeadPostOk ==
    /\ running
    /\ lead.pc = "post"
    /\ out' = LeadAnswer(lead, 200, "")
    /\ lead' = LeadIdle
    /\ UNCHANGED <<current, clock, file, issued, cb, bg, lastWrite, nextFire, running>>

\* lines 202-206 with the post sent once more before giving up
LeadPostFail_RetriesOnce ==
    /\ running
    /\ lead.pc = "post"
    /\ IF lead.nPost < 2
       THEN /\ lead' = [lead EXCEPT !.nPost = @ + 1]
            /\ UNCHANGED out
       ELSE /\ out' = LeadAnswer(lead, 500, "SubmissionFailed")
            /\ lead' = LeadIdle
    /\ UNCHANGED <<current, clock, file, issued, cb, bg, lastWrite, nextFire, running>>

\* lines 202-206
LeadPostFail ==
    /\ running
    /\ lead.pc = "post"
    /\ out' = LeadAnswer(lead, 500, "SubmissionFailed")
    /\ lead' = LeadIdle
    /\ UNCHANGED <<current, clock, file, issued, cb, bg, lastWrite, nextFire, running>>

\* GET /callback, lines 132-139 and 41-51
CallbackRequest(query) ==
    /\ running
    /\ cb.pc = "idle"
    /\ LET r == [CbIdle EXCEPT !.query = query]
       IN IF ~HasCode(query)
          THEN /\ out' = CbAnswer(r, 400, "")
               /\ UNCHANGED cb
          ELSE /\ cb' = [r EXCEPT !.pc = "exchange",
                                  !.sent = ExchangeBody(query.code),
                                  !.nAuth = @ + 1]
               /\ UNCHANGED out
    /\ UNCHANGED <<current, clock, file, issued, lead, bg, lastWrite, nextFire, running>>

\* lines 52-55 and 140-142
ExchangeOk(data) ==
    /\ running
    /\ cb.pc = "exchange"
    /\ issued < MaxIssue
    /\ issued' = issued + 1
    /\ current' \in Issues(data, issued)
    /\ file' = StoreResponse(data, clock)
    /\ lastWrite' = [data |-> data, at |-> clock]
    /\ out' = CbAnswer(cb, 200, "")
    /\ cb' = CbIdle
    /\ UNCHANGED <<clock, lead, bg, nextFire, running>>

\* lines 143-146 with the token file removed when the exchange fails
ExchangeFail_RemovesRecord ==
    /\ running
    /\ cb.pc = "exchange"
    /\ out' = CbAnswer(cb, 500, "CodeExchangeFailed")
    /\ cb' = CbIdle
    /\ file' = NoFile
    /\ UNCHANGED <<current, clock, issued, lead, bg, lastWrite, nextFire, running>>

\* lines 143-146
ExchangeFail ==
    /\ running
    /\ cb.pc = "exchange"
    /\ out' = CbAnswer(cb, 500, "CodeExchangeFailed")
    /\ cb' = CbIdle
    /\ UNCHANGED <<current, clock, file, issued, lead, bg, lastWrite, nextFire, running>>

\* line 115 fires backgroundRefresher, lines 96-104
BgTick ==
    /\ running
    /\ clock >= nextFire
    /\ bg.pc = "idle"
    /\ nextFire' = clock + BG_PERIOD_MS
    /\ LET b == backgroundRefresher(file, clock)
       IN IF b.do = "refresh"
          THEN /\ bg' = [BgIdle EXCEPT
                           !.pc = "refresh", !.tokens = b.tokens,
                           !.epoch = issued,
                           !.sent = RefreshBody(Get(b.tokens, "refresh_token")),
                           !.nAuth = @ + 1]
               /\ UNCHANGED out
          ELSE /\ out' = BgEnd(BgIdle, b.do)
               /\ UNCHANGED bg
    /\ UNCHANGED <<current, clock, file, issued, lead, cb, lastWrite, running>>

\* lines 67-74 inside line 104
BgRefreshOk(data) ==
    /\ running
    /\ bg.pc = "refresh"
    /\ issued < MaxIssue
    /\ issued' = issued + 1
    /\ current' \in Issues(data, bg.epoch)
    /\ file' = StoreResponse(data, clock)
    /\ lastWrite' = [data |-> data, at |-> clock]
    /\ out' = BgEnd(bg, "refreshed")
    /\ bg' = BgIdle
    /\ UNCHANGED <<clock, lead, cb, nextFire, running>>

\* lines 75-78 inside line 104, then 109-111
BgRefreshFail ==
    /\ running
    /\ bg.pc = "refresh"
    /\ out' = BgEnd(bg, "failed")
    /\ bg' = BgIdle
    /\ running' = ~BgErrorEscapes
    /\ UNCHANGED <<current, clock, file, issued, lead, cb, lastWrite, nextFire>>

\* GET /token-status, lines 211-220
TokenStatus ==
    /\ running
    /\ out' = [kind |-> "status", n |-> 1 - out.n,
               res |-> TokenStatusBody(file, clock)]
    /\ UNCHANGED <<current, clock, file, issued, lead, cb, bg, lastWrite, nextFire, running>>

\* time passes
Advance ==
    /\ \E t \in ClockValues : t > clock /\ clock' = t
    /\ UNCHANGED <<file, issued, lead, cb, bg, out, lastWrite, nextFire, running,
                   current>>

Next ==
    \/ \E body \in LeadBodies : LeadRequest(body)
    \/ \E data \in Responses(issued + 1) : LeadRefreshOk(data)
    \/ LeadRefreshFail
    \/ LeadPostOk
    \/ LeadPostFail
    \/ \E query \in Queries : CallbackRequest(query)
    \/ \E data \in Responses(issued + 1) : ExchangeOk(data)
    \/ ExchangeFail
    \/ BgTick
    \/ \E data \in Responses(issued + 1) : BgRefreshOk(data)
    \/ BgRefreshFail
    \/ TokenStatus
    \/ Advance

Spec == Init /\ [][Next]_vars

\* The relay under /lead traffic alone, with the wider range of lead bodies
LeadNext ==
    \/ \E body \in PayloadBodies : LeadRequest(body)
    \/ \E data \in Responses(issued + 1) : LeadRefreshOk(data)
    \/ LeadRefreshFail
    \/ LeadPostOk
    \/ LeadPostFail

LeadSpec == Init /\ [][LeadNext]_vars

\* saveTokens called on its own.  lastWrite holds the argument of the first
\* call, the instant of the latest call and the number of calls made with
\* that argument.
SaveFirst(tokens) ==
    /\ file' = saveTokens(tokens, clock)
    /\ lastWrite' = [data |-> tokens, at |-> clock, times |-> 1]
    /\ UNCHANGED <<current, clock, issued, lead, cb, bg, out, nextFire, running>>

\* saveTokens called again with the same argument: an equal object, or the
\* very object of the call before, which line 35 has assigned to and which
\* line 37 has written
SaveAgain ==
    /\ lastWrite # null
    /\ lastWrite.times < MaxSaves
    /\ \E tokens \in {lastWrite.data, file.rec} :
          file' = saveTokens(tokens, clock)
    /\ lastWrite' = [lastWrite EXCEPT !.at = clock, !.times = @ + 1]
    /\ UNCHANGED <<current, clock, issued, lead, cb, bg, out, nextFire, running>>

SaveNext ==
    \/ \E tokens \in SaveInputs : SaveFirst(tokens)
    \/ SaveAgain
    \/ Advance

SaveSpec == Init /\ [][SaveNext]_vars

\* The relay left idle: one authorization through /callback at most, then
\* no inbound request; the timer fires when it is due, before time moves
\* on; every refresh is answered at once, with a response that carries a
\* refresh_token and an expires_in longer than the timer period.
IdleAdvance ==
    /\ bg.pc = "idle"
    /\ clock < nextFire
    /\ Advance
    /\ clock' <= nextFire

IdleNext ==
    \/ lastWrite = null /\ \E query \in Queries : CallbackRequest(query)
    \/ \E data \in Responses(issued + 1) \cup {ShortLived(issued + 1)} :
          ExchangeOk(data)
    \/ ExchangeFail
    \/ BgTick
    \/ \E data \in KeepAliveResponses(issued + 1) : BgRefreshOk(data)
    \/ IdleAdvance

IdleSpec == Init /\ [][IdleNext]_vars

----------------------------------------------------------------------------
(* What the claims speak of, in their own terms *)

\* the store holds a token record
Stored == file.kind = "json"

\* the stored record has a refresh_token
StoredHasRefreshToken ==
    "refresh_token" \in DOMAIN file.rec /\ file.rec.refresh_token # 0

\* the stored record is near or past expiry at the current time
StoredNearExpiry ==
    \/ "expires_at" \notin DOMAIN file.rec
    \/ clock >= file.rec.expires_at - 120000

\* the stored record expires more than 2 minutes from now
StoredFresh ==
    /\ "expires_at" \in DOMAIN file.rec
    /\ file.rec.expires_at > clock + 120000

\* the access_token of a record, 0 standing for undefined
AccessTokenOf(o) ==
    IF "access_token" \in DOMAIN o THEN o.access_token ELSE 0

\* a lead body carries both names
NamesPresent(b) ==
    /\ "firstName" \in DOMAIN b /\ b.firstName # ""
    /\ "lastName" \in DOMAIN b /\ b.lastName # ""

\* this step is the /lead handler taking a request: it either starts to
\* await, or answers at once
LeadCalled ==
    /\ lead.pc = "idle"
    /\ \/ lead'.pc # "idle"
       \/ out' # out /\ out'.kind = "lead"

\* the body of the request taken in this step
LeadCalledBody == IF lead'.pc # "idle" THEN lead'.body ELSE out'.body

\* this step is a call of getValidAccessToken
GvatCalled == LeadCalled /\ NamesPresent(LeadCalledBody)

\* this step sends nothing and writes nothing
NoWrite ==
    /\ file' = file
    /\ issued' = issued
    /\ lastWrite' = lastWrite

\* this step of the /lead handler is an answer with an error of the token
\* layer, before any request was sent
FailsWith(err) ==
    /\ lead'.pc = "idle"
    /\ out'.kind = "lead" /\ out'.status = 500 /\ out'.err = err
    /\ out'.nAuth = 0 /\ out'.nPost = 0

----------------------------------------------------------------------------
\* C1: a stored record whose expires_at is more than 2 minutes (120000 ms)
\* after now makes getValidAccessToken return exactly the stored
\* access_token, with no request to the authorization server and the
\* stored record unchanged.
C1_FreshTokenReturnedAsStored ==
    [][ (Stored /\ StoredFresh /\ GvatCalled)
        => /\ lead'.pc = "post"
           /\ lead'.ret = AccessTokenOf(file.rec)
           /\ lead'.nAuth = 0 /\ lead'.sent = null
           /\ NoWrite ]_vars

C1_Witness ==
    /\ lead.pc = "post" /\ lead.nAuth = 0
    /\ Stored /\ StoredFresh
    /\ lead.tokens = file.rec
    /\ lead.ret = AccessTokenOf(file.rec) /\ lead.ret # 0

\* C2: a stored record with a refresh_token whose expires_at is absent, past
\* or at most 2 minutes ahead (now = expires_at - 120000 included) makes one
\* call of getValidAccessToken send exactly one refresh request, carrying
\* that refresh_token; when it succeeds the call returns the access_token
\* of the response, not the old one, and the response is the stored record.
C2_NearExpiryRefreshesOnce ==
    [][ /\ (Stored /\ StoredHasRefreshToken /\ StoredNearExpiry /\ GvatCalled)
           => /\ lead'.pc = "refresh"
              /\ lead'.nAuth = 1
              /\ lead'.sent = [grant_type |-> "refresh_token",
                               refresh_token |-> file.rec.refresh_token]
              /\ NoWrite
        /\ (lead.pc = "refresh" /\ lead'.pc = "post")
           => /\ lead'.nAuth = 1
              /\ lead'.ret = AccessTokenOf(lead'.res)
              /\ ("access_token" \in DOMAIN lead'.res
                    => lead'.ret # AccessTokenOf(lead.tokens))
              /\ file'.kind = "json"
              /\ DOMAIN file'.rec = DOMAIN lead'.res \cup {"expires_at"}
              /\ \A k \in DOMAIN lead'.res \ {"expires_at"} :
                    file'.rec[k] = lead'.res[k]
        /\ lead'.nAuth <= 1 ]_vars

C2_Witness ==
    /\ lead.pc = "post" /\ lead.nAuth = 1
    /\ Stored /\ file.rec = lead.tokens
    /\ lead.ret = AccessTokenOf(lead.res) /\ lead.ret # 0
    /\ "refresh_token" \in DOMAIN lead.res
    /\ lead.sent.refresh_token # lead.res.refresh_token

\* C3: with no token record (no file, or an unparseable one)
\* getValidAccessToken fails with Unauthorized, sends nothing and leaves the
\* store as it is, in every reachable state.
C3_NoRecordIsUnauthorized ==
    [][ (~Stored /\ GvatCalled) => (FailsWith("Unauthorized") /\ NoWrite) ]_vars

C3_Witness ==
    /\ file.kind = "corrupt" /\ issued = 0
    /\ out.kind = "lead" /\ out.err = "Unauthorized" /\ out.status = 500
    /\ out.nAuth = 0

\* C4: a record without a refresh_token that is near or past expiry makes
\* getValidAccessToken fail with MissingRefreshToken, with no refresh
\* request and the stored record unchanged.
C4_NoRefreshTokenFails ==
    [][ (Stored /\ ~StoredHasRefreshToken /\ StoredNearExpiry /\ GvatCalled)
        => (FailsWith("MissingRefreshToken") /\ NoWrite) ]_vars

C4_Witness ==
    /\ Stored /\ ~StoredHasRefreshToken /\ StoredNearExpiry
    /\ "expires_at" \in DOMAIN file.rec
    /\ out.kind = "lead" /\ out.err = "MissingRefreshToken" /\ out.nAuth = 0

----------------------------------------------------------------------------
\* this step is a refresh started by /lead failing
LeadRefreshFailed ==
    lead.pc = "refresh" /\ lead'.pc = "idle"

\* this step is a refresh started by the background refresher failing
BgRefreshFailed ==
    bg.pc = "refresh" /\ bg'.pc = "idle" /\ out'.outcome = "failed"

\* this step is the interval timer firing backgroundRefresher
BgTicked == nextFire' # nextFire

\* C5, as claimed: when a refresh request fails the stored record is exactly
\* what it was before the refresh was started.
C5_StoreAsBeforeRefreshStarted ==
    [][ /\ LeadRefreshFailed => file' = Json(lead.tokens)
        /\ BgRefreshFailed => file' = Json(bg.tokens) ]_vars

\* C5, amended: the failing refresh itself writes nothing, so the stored
\* record is the one loaded when the refresh started unless an exchange or
\* another refresh replaced it meanwhile; the failure reaches the caller;
\* and while no exchange or refresh has replaced the record, the next
\* getValidAccessToken after a failed request-time refresh, and the next
\* tick after a failed background refresh, send the refresh again with the
\* same refresh_token.
C5_FailedRefreshWritesNothing ==
    [][ /\ LeadRefreshFailed
           => /\ NoWrite
              /\ issued = lead.epoch => file = Json(lead.tokens)
              /\ out'.kind = "lead" /\ out'.status = 500
              /\ out'.err = "RefreshFailed" /\ out'.nPost = 0
        /\ BgRefreshFailed
           => /\ NoWrite
              /\ issued = bg.epoch => file = Json(bg.tokens)
              /\ out'.kind = "bg"
        /\ ( /\ out.kind = "lead" /\ out.err = "RefreshFailed"
             /\ out.epoch = issued /\ GvatCalled )
           => lead'.pc = "refresh" /\ lead'.sent = out.sent
        /\ ( /\ out.kind = "bg" /\ out.outcome = "failed"
             /\ out.epoch = issued /\ BgTicked )
           => bg'.pc = "refresh" /\ bg'.sent = out.sent ]_vars

C5_Witness ==
    /\ out.kind = "lead" /\ out.err = "RefreshFailed" /\ out.epoch = issued
    /\ lead.pc = "refresh" /\ lead.sent = out.sent
    /\ file = Json(lead.tokens)

\* C6: every record written by the code exchange or by a refresh has
\* expires_at = the clock at the write + expires_in * 1000 of that response
\* (0 for a response without expires_in); an expires_at sent by the server
\* is not what is stored.
C6_ExpiresAtRecomputed ==
    lastWrite # null
    => /\ Stored
       /\ "expires_at" \in DOMAIN file.rec
       /\ file.rec.expires_at =
            lastWrite.at
            + (IF "expires_in" \in DOMAIN lastWrite.data
               THEN lastWrite.data.expires_in ELSE 0) * 1000
       /\ "expires_at" \in DOMAIN lastWrite.data
            => file.rec.expires_at # lastWrite.data.expires_at

C6_Witness ==
    /\ lastWrite # null
    /\ "expires_at" \in DOMAIN lastWrite.data
    /\ "expires_in" \notin DOMAIN lastWrite.data
    /\ file.rec.expires_at = lastWrite.at
    /\ clock > lastWrite.at

\* C7: the store holds one record, and a successful exchange or refresh
\* replaces it whole: the stored record has the fields of the response plus
\* expires_at and nothing else, so a refresh_token of the previous record is
\* gone when the response has none.
C7_WriteReplacesWholeRecord ==
    lastWrite # null
    => /\ Stored
       /\ DOMAIN file.rec = DOMAIN lastWrite.data \cup {"expires_at"}
       /\ \A k \in DOMAIN lastWrite.data \ {"expires_at"} :
            file.rec[k] = lastWrite.data[k]

C7_Witness ==
    /\ lead.pc = "post" /\ lead.nAuth = 1 /\ lead.epoch + 1 = issued
    /\ "refresh_token" \in DOMAIN lead.sent
    /\ lastWrite # null /\ lastWrite.data = lead.res
    /\ file = Json(lead.tokens)
    /\ "refresh_token" \notin DOMAIN file.rec

\* C8: a tick of the background timer sends a refresh request, exactly one,
\* if and only if a record with an expires_at is stored and expires_at - now
\* is below 12 hours (43200000 ms); otherwise it sends nothing and leaves
\* the store as it is.
C8_TickRefreshesBelowTwelveHours ==
    [][ BgTicked
        => /\ NoWrite
           /\ bg'.nAuth <= 1
           /\ IF /\ Stored
                 /\ "expires_at" \in DOMAIN file.rec
                 /\ file.rec.expires_at - clock < 43200000
              THEN bg'.pc = "refresh" /\ bg'.nAuth = 1 /\ out' = out
              ELSE /\ bg' = bg /\ bg'.pc = "idle"
                   /\ out'.kind = "bg" /\ out'.nAuth = 0 ]_vars

C8_Witness ==
    /\ bg.pc = "refresh" /\ bg.nAuth = 1
    /\ file = Json(bg.tokens)
    /\ bg.tokens.expires_at - clock < 43200000
    /\ bg.tokens.expires_at - clock > 39600000

\* C9: a failure inside a background tick stays inside it: the process
\* keeps running, the stored record is not touched, the timer stays armed,
\* and a later tick evaluates the refresh decision again.
C9_BackgroundFailureContained ==
    /\ []running
    /\ [][ /\ BgRefreshFailed
              => /\ NoWrite /\ running'
                 /\ nextFire' = nextFire
                 /\ bg'.pc = "idle"
                 /\ out'.kind = "bg" /\ out'.nAuth = 1
           /\ (BgTicked /\ ~Stored)
              => /\ NoWrite /\ running'
                 /\ out'.kind = "bg" /\ out'.outcome = "skip"
           /\ BgTicked => nextFire' = clock + 600000 ]_vars

C9_Witness ==
    /\ running
    /\ out.kind = "bg" /\ out.outcome = "failed"
    /\ bg.pc = "refresh"
    /\ clock >= nextFire - 600000

\* C10: a POST /lead whose body lacks firstName or lastName (missing or
\* empty) is answered 400 and causes no token refresh, no downstream post
\* and no change of the stored record, whatever the token state.
C10_InvalidLeadTouchesNothing ==
    [][ (LeadCalled /\ ~NamesPresent(LeadCalledBody))
        => /\ lead'.pc = "idle"
           /\ out'.kind = "lead" /\ out'.status = 400
           /\ out'.nAuth = 0 /\ out'.nPost = 0
           /\ NoWrite ]_vars

C10_Witness ==
    /\ out.kind = "lead" /\ out.status = 400
    /\ "lastName" \notin DOMAIN out.body
    /\ out.nAuth = 0 /\ out.nPost = 0
    /\ Stored /\ StoredHasRefreshToken /\ StoredNearExpiry
    /\ lead.pc = "idle"

----------------------------------------------------------------------------
\* this step is the /lead handler posting the lead downstream
LeadSubmitted == lead'.pc = "post" /\ lead'.nPost > lead.nPost

\* this step is the downstream post of the /lead handler being answered
LeadPostAnswered == lead.pc = "post" /\ lead'.pc = "idle"

C12_TokenFailureIs500WithoutPost ==
    [][ /\ ( /\ GvatCalled
             /\ \/ ~Stored
                \/ Stored /\ ~StoredHasRefreshToken /\ StoredNearExpiry )
           => /\ lead' = lead
              /\ out'.kind = "lead" /\ out'.status = 500
              /\ out'.err \in {"Unauthorized", "MissingRefreshToken"}
              /\ out'.nPost = 0
              /\ out'.body = LeadCalledBody
        /\ (lead.pc = "refresh" /\ lead' # lead /\ issued' = issued)
           => /\ lead.nPost = 0 /\ lead.posted = null
              /\ lead' = LeadIdle
              /\ out'.kind = "lead" /\ out'.status = 500
              /\ out'.nPost = 0
              /\ out'.body = lead.body ]_vars

C12_Witness ==
    /\ lead.pc = "idle"
    /\ out.kind = "lead" /\ out.status = 500 /\ out.err = "RefreshFailed"
    /\ out.nAuth = 1 /\ out.nPost = 0
    /\ Stored /\ StoredHasRefreshToken

\* this step is the /callback handler taking a request
CallbackCalled ==
    /\ cb.pc = "idle"
    /\ \/ cb'.pc # "idle"
       \/ out' # out /\ out'.kind = "callback"

\* the query of the request taken in this step
CallbackCalledQuery == IF cb'.pc # "idle" THEN cb'.query ELSE out'.query

\* C13: GET /callback without a code answers 400, sends no exchange request
\* and leaves the store unchanged; with a code it sends one exchange request
\* carrying that code, and when the exchange fails it answers 500 with the
\* store unchanged, when it succeeds it answers 200 and the store holds the
\* record just issued.
C13_CallbackOutcomes ==
    [][ /\ CallbackCalled
           => /\ NoWrite
              /\ IF "code" \in DOMAIN CallbackCalledQuery
                    /\ CallbackCalledQuery.code # ""
                 THEN /\ cb'.pc = "exchange" /\ cb'.nAuth = 1
                      /\ cb'.sent = [grant_type |-> "authorization_code",
                                     code |-> CallbackCalledQuery.code]
                      /\ out' = out
                 ELSE /\ cb' = cb
                      /\ out'.kind = "callback" /\ out'.status = 400
                      /\ out'.nAuth = 0
        /\ (cb.pc = "exchange" /\ cb' # cb)
           => /\ cb' = CbIdle
              /\ out'.kind = "callback" /\ out'.nAuth = 1
              /\ out'.query = cb.query
              /\ \/ /\ out'.status = 500
                    /\ NoWrite
                 \/ /\ out'.status = 200
                    /\ issued' = issued + 1
                    /\ lastWrite'.data \in Responses(issued')
                    /\ file'.kind = "json"
                    /\ \A k \in DOMAIN lastWrite'.data \ {"expires_at"} :
                         /\ k \in DOMAIN file'.rec
                         /\ file'.rec[k] = lastWrite'.data[k]
                    /\ file'.rec.expires_at >= clock ]_vars

C13_Witness ==
    /\ out.kind = "callback" /\ out.status = 200 /\ out.nAuth = 1
    /\ cb.pc = "idle" /\ lead.pc = "idle" /\ bg.pc = "idle"
    /\ issued = 1
    /\ Stored /\ "access_token" \in DOMAIN file.rec
    /\ file.rec.access_token = 1

\* this step is /token-status answering
StatusAnswered == out' # out /\ out'.kind = "status"

\* C14: GET /token-status answers authorized = true only when the stored
\* record contains an access_token.
C14_AuthorizedOnlyWithAccessToken ==
    [][ (StatusAnswered /\ out'.res.authorized)
        => /\ Stored
           /\ "access_token" \in DOMAIN file.rec ]_vars

\* a lead body supplies a custom field: a non-empty typeOfClient and a
\* non-zero customFieldId
SuppliesCustomField(b) ==
    /\ "typeOfClient" \in DOMAIN b /\ b.typeOfClient # ""
    /\ "customFieldId" \in DOMAIN b /\ b.customFieldId # 0

\* C15: the payload posted downstream has a custom_field_values entry if
\* and only if the lead body supplies both typeOfClient and customFieldId,
\* and then it is the one entry made of the two; with only one of them the
\* key is absent.
C15_CustomFieldNeedsBoth ==
    [][ LeadSubmitted
        => /\ ("custom_field_values" \in DOMAIN lead'.posted)
                <=> SuppliesCustomField(lead'.body)
           /\ SuppliesCustomField(lead'.body)
                => lead'.posted.custom_field_values =
                     << [custom_field |-> [id |-> lead'.body.customFieldId],
                         value |-> lead'.body.typeOfClient] >>
           /\ lead'.posted.first_name = lead'.body.firstName
           /\ lead'.posted.last_name = lead'.body.lastName ]_vars

C15_Witness ==
    /\ lead.pc = "post"
    /\ SuppliesCustomField(lead.body)
    /\ lead.posted.custom_field_values =
         << [custom_field |-> [id |-> 12345], value |-> "Real Estate"] >>

\* this step is saveTokens called again with the argument of the call
\* before, at the instant of that call
SavedAgainAtOnce ==
    /\ lastWrite # null /\ lastWrite' # null
    /\ lastWrite'.data = lastWrite.data
    /\ lastWrite'.times = lastWrite.times + 1
    /\ lastWrite.at = clock

\* C16: saving the same record twice at one instant stores the same
\* expires_at both times (none both times when the record has neither
\* expires_in nor expires_at).
C16_SaveTokensIdempotent ==
    [][ SavedAgainAtOnce
        => /\ file'.kind = "json"
           /\ ("expires_at" \in DOMAIN file'.rec)
                <=> ("expires_at" \in DOMAIN file.rec)
           /\ "expires_at" \in DOMAIN file.rec
                => file'.rec.expires_at = file.rec.expires_at ]_vars

C16_Witness ==
    /\ clock = BootTime
    /\ lastWrite # null /\ lastWrite.times = 2
    /\ "expires_at" \in DOMAIN lastWrite.data
    /\ "expires_in" \in DOMAIN lastWrite.data
    /\ lastWrite.data.expires_in = 120
    /\ file.rec.expires_at = clock + 120000
    /\ file.rec.expires_at # lastWrite.data.expires_at

RaceCompleted ==
    /\ lead.pc = "post" /\ lead.nAuth = 1
    /\ bg.pc = "idle"
    /\ out.kind = "bg" /\ out.outcome = "refreshed"
    /\ issued = lead.epoch + 2
    /\ lead.res \in Responses(issued)

\* C18: once an inbound request's refresh and a concurrent background
\* refresh have both completed, the stored record carries a refresh_token
\* the authorization server still accepts: the one it issued last.
C18_RaceLeavesAcceptedRefreshToken ==
    RaceCompleted
    => /\ Stored
       /\ "refresh_token" \in DOMAIN file.rec
       /\ file.rec.refresh_token = current

\* C19, as claimed: with no inbound traffic after the authorization, the
\* timer firing every period and every refresh succeeding with a
\* refresh_token and an expires_in above the period, the stored expires_at
\* is in the future at every moment after a record was stored.
C19_StoredTokenNeverStale ==
    lastWrite # null
    => /\ Stored
       /\ "expires_at" \in DOMAIN file.rec
       /\ file.rec.expires_at > clock

\* C19, amended: under the same conditions, with every refresh answered
\* before the clock moves on, the stored expires_at is in the future at
\* every moment for which the record in the store came from a response
\* whose expires_in is above the timer period (600 s), the response of the
\* authorization included.
C19_LongLivedTokenNeverStale ==
    ( /\ lastWrite # null
      /\ "expires_in" \in DOMAIN lastWrite.data
      /\ lastWrite.data.expires_in * 1000 > 600000 )
    => /\ Stored
       /\ "expires_at" \in DOMAIN file.rec
       /\ file.rec.expires_at > clock

C19_Witness ==
    /\ out.kind = "bg" /\ out.outcome = "refreshed"
    /\ lastWrite # null
    /\ "expires_in" \in DOMAIN lastWrite.data
    /\ lastWrite.data.expires_in = 601
    /\ clock = lastWrite.at + 600000
    /\ file.rec.expires_at = clock + 1000

\* C20: every refresh request carries a refresh_token, the one of the record
\* loaded for the decision, both from getValidAccessToken and from the
\* background tick; a stored record without a refresh_token causes no
\* refresh request.
C20_RefreshAlwaysCarriesToken ==
    [][ /\ lead'.nAuth > lead.nAuth
           => /\ "refresh_token" \in DOMAIN lead'.tokens
              /\ "refresh_token" \in DOMAIN lead'.sent
              /\ lead'.sent.refresh_token = lead'.tokens.refresh_token
        /\ bg'.nAuth > bg.nAuth
           => /\ "refresh_token" \in DOMAIN bg'.tokens
              /\ "refresh_token" \in DOMAIN bg'.sent
              /\ bg'.sent.refresh_token = bg'.tokens.refresh_token
        /\ (Stored /\ ~StoredHasRefreshToken)
           => /\ lead'.nAuth <= lead.nAuth
              /\ bg'.nAuth <= bg.nAuth ]_vars

====
